---- MODULE Spec2Model ----
(***************************************************************************)
(* Model of keanus_candy/models/person.py: the Person / User / Staff       *)
(* lifecycle (email verification, login, password change, deactivation,    *)
(* lazy cart creation, checkout, order history, inventory update).         *)
(* ShoppingCart, Order, Candy and                                          *)
(* PaymentMethod live in modules that are not part of the source tree;     *)
(* their behaviour is taken from the interface contract of spec.md, §6.    *)
(***************************************************************************)
EXTENDS Integers, Sequences, FiniteSets, TLC

\* ---------------------------------------------------------------- bounds
MaxItems == 1       \* accepted add_item calls a cart holds at most
MaxOrders == 2      \* successful checkouts per account
MaxHeld == 2        \* length of a list the caller of get_orders holds

\* ---------------------------------------------------------------- inputs
Emails == {"a@x.com", "b@x.com"}
\* "secr<U+00E9>t" stands for a str holding a non-ASCII character
NonAscii == {"secr<U+00E9>t"}
Passwords == {"secret123", "hunter2"} \cup NonAscii
Reasons == {"None", "fraud"}
Candies == {"gummy"}
Quantities == {0, 1}
PaymentMethods == {"card", "cash"}
Kinds == {"Person", "User"}
UserKinds == {"User", "Staff"}      \* Staff inherits every operation of User
Positions == {"manager"}
InitialQuantities == {-2, 0, 3}     \* Candy itself validates nothing
NewQuantities == {-1, 0, 1, 2}
Threads == {1, 2}

None == [none |-> TRUE]

VARIABLES
    kind,               \* class of the object: Person or User
    person_id, name,    \* Person.person_id, Person.name
    email,              \* Person.email
    email_verified,     \* Person.email_verified
    password,           \* User._password
    heap,               \* the list objects: reference -> contents
    orders,             \* User._orders: a reference into heap
    cart,               \* User._cart: None or a ShoppingCart object
    is_active,          \* User.is_active
    deactivated_reason, \* User.deactivated_reason
    held,               \* the reference a caller got from get_orders (0: none)
    carts_created,      \* number of ShoppingCart objects constructed
    orders_created,     \* number of Order objects constructed
    deactivate_called,  \* history: deactivate has been called
    email_event,        \* history: last of "created" / "verified" / "updated"
    add_called,         \* history: add_to_cart has been called
    items_added,        \* history: number of add_item calls the cart accepted
    position,           \* Staff.position
    candy_quantity,     \* Candy.quantity of the candy handed to update_inventory
    inventory_written,  \* history: update_inventory has written the quantity
    pc,                 \* per thread: where it stands inside checkout
    local_order,        \* per thread: checkout's local variable `order`
    pre,                \* the object's fields before the last operation
    last                \* the last operation: its name, arguments and outcome

vars == <<kind, person_id, name, email, email_verified, password, heap, orders,
          cart, is_active, deactivated_reason, held, carts_created,
          orders_created, deactivate_called, email_event, add_called,
          items_added, position, candy_quantity, inventory_written, pc,
          local_order, pre, last>>

personVars == <<kind, person_id, name>>
userVars == <<password, heap, orders, cart, is_active, deactivated_reason,
              held, carts_created, orders_created, deactivate_called,
              add_called, items_added>>
staffVars == <<position, candy_quantity, inventory_written>>
threadVars == <<pc, local_order>>

\* ------------------------------------------------------------- helpers
Snapshot ==
    [email |-> email, email_verified |-> email_verified, password |-> password,
     orders |-> heap[orders], cart |-> cart, is_active |-> is_active,
     deactivated_reason |-> deactivated_reason,
     candy_quantity |-> candy_quantity]

Returns(op, args, v) == [op |-> op, args |-> args, outcome |-> "returned", ret |-> v]

IsPrefix(s, t) == Len(s) <= Len(t) /\ SubSeq(t, 1, Len(s)) = s

Reverse(s) == [i \in 1..Len(s) |-> s[Len(s) + 1 - i]]

\* ------------------------------------------------------ Person.__init__
PersonInit(verified) ==
    /\ person_id = 1
    /\ name = "Keanu"
    /\ email = "a@x.com"
    /\ email_verified = verified

\* -------------------------------------------------------- User.__init__
UserInit(pw, active) ==
    /\ PersonInit(FALSE)
    /\ password = pw
    /\ heap = (1 :> <<>>)
    /\ orders = 1
    /\ cart = None
    /\ is_active = active
    /\ deactivated_reason = "None"

Init ==
    /\ kind \in Kinds
    /\ IF kind = "Person"
         THEN /\ \E v \in BOOLEAN : PersonInit(v)
              \* a plain Person has none of User's fields
              /\ password = "" /\ heap = (1 :> <<>>) /\ orders = 1
              /\ cart = None /\ is_active = FALSE /\ deactivated_reason = "None"
         ELSE \E pw \in Passwords, a \in BOOLEAN : UserInit(pw, a)
    /\ held = 0
    /\ carts_created = 0
    /\ orders_created = 0
    /\ deactivate_called = FALSE
    /\ email_event = "created"
    /\ add_called = FALSE
    /\ items_added = 0
    /\ position = "None"
    /\ candy_quantity = 0
    /\ inventory_written = FALSE
    /\ pc = [t \in Threads |-> "idle"]
    /\ local_order = [t \in Threads |-> None]
    /\ pre = Snapshot
    /\ last = Returns("__init__", <<>>, None)

\* -------------------------------------------------- Person.verify_email
VerifyEmailFlag == TRUE

VerifyEmail ==
    /\ email_verified' = VerifyEmailFlag
    /\ email_event' = "verified"
    /\ pre' = Snapshot
    /\ last' = Returns("verify_email", <<>>, None)
    /\ UNCHANGED <<personVars, staffVars, threadVars, email, userVars>>

\* -------------------------------------------------- Person.update_email
\* Faulty variant: the flag survives an update to the same address.
UpdateEmailKeepsVerifiedIfSame(old_email, old_verified, new_email) ==
    IF new_email = old_email THEN old_verified ELSE FALSE

UpdateEmailFlag(old_email, old_verified, new_email) == FALSE

UpdateEmail(new_email) ==
    /\ email' = new_email
    /\ email_verified' = UpdateEmailFlag(email, email_verified, new_email)
    /\ email_event' = "updated"
    /\ pre' = Snapshot
    /\ last' = Returns("update_email", <<new_email>>, None)
    /\ UNCHANGED <<personVars, staffVars, threadVars, userVars>>

\* ------------------------------------------------- hmac.compare_digest
\* On two str arguments compare_digest raises TypeError unless both are
\* ASCII-only; otherwise it is equality.
IsAscii(s) == s \notin NonAscii

CompareDigest(a, b) ==
    IF IsAscii(a) /\ IsAscii(b)
      THEN [raised |-> FALSE, value |-> (a = b)]
      ELSE [raised |-> TRUE, value |-> FALSE]

\* ----------------------------------------------------------- User.login
\* Faulty variant: the active flag is not consulted.
LoginIgnoresActive(active, stored_email, stored_pw, e, p) ==
    IF stored_email # e THEN [outcome |-> "returned", ret |-> FALSE]
    ELSE IF CompareDigest(stored_pw, p).raised
           THEN [outcome |-> "raised", ret |-> "TypeError"]
           ELSE [outcome |-> "returned", ret |-> CompareDigest(stored_pw, p).value]

LoginResult(active, stored_email, stored_pw, e, p) ==
    IF ~active THEN [outcome |-> "returned", ret |-> FALSE]
    ELSE IF stored_email # e THEN [outcome |-> "returned", ret |-> FALSE]
    ELSE IF CompareDigest(stored_pw, p).raised
           THEN [outcome |-> "raised", ret |-> "TypeError"]
           ELSE [outcome |-> "returned", ret |-> CompareDigest(stored_pw, p).value]

Login(e, p) ==
    /\ kind \in UserKinds
    /\ pre' = Snapshot
    /\ last' = [op |-> "login", args |-> <<e, p>>,
                outcome |-> LoginResult(is_active, email, password, e, p).outcome,
                ret |-> LoginResult(is_active, email, password, e, p).ret]
    /\ UNCHANGED <<personVars, staffVars, threadVars, email, email_verified, email_event, userVars>>

\* ------------------------------------------------- User.change_password
ChangePasswordResult(stored_pw, old_password, new_password) ==
    IF CompareDigest(stored_pw, old_password).raised
      THEN [outcome |-> "raised", ret |-> "TypeError", password |-> stored_pw]
    ELSE IF ~CompareDigest(stored_pw, old_password).value
      THEN [outcome |-> "returned", ret |-> FALSE, password |-> stored_pw]
    ELSE [outcome |-> "returned", ret |-> TRUE, password |-> new_password]

ChangePassword(old_password, new_password) ==
    /\ kind \in UserKinds
    /\ password' = ChangePasswordResult(password, old_password, new_password).password
    /\ pre' = Snapshot
    /\ last' = [op |-> "change_password", args |-> <<old_password, new_password>>,
                outcome |-> ChangePasswordResult(password, old_password, new_password).outcome,
                ret |-> ChangePasswordResult(password, old_password, new_password).ret]
    /\ UNCHANGED <<personVars, staffVars, threadVars, email, email_verified, email_event, heap, orders,
                   cart, is_active, deactivated_reason, held, carts_created,
                   orders_created, deactivate_called,
                   add_called, items_added>>

\* ------------------------------------------------------ User.deactivate
\* Faulty variant: deactivate records the reason only.
DeactivateKeepsActive(active) == active

DeactivateFlag(active) == FALSE

Deactivate(reason) ==
    /\ kind \in UserKinds
    /\ is_active' = DeactivateFlag(is_active)
    /\ deactivated_reason' = reason
    /\ deactivate_called' = TRUE
    /\ pre' = Snapshot
    /\ last' = Returns("deactivate", <<reason>>, None)
    /\ UNCHANGED <<personVars, staffVars, threadVars, email, email_verified, email_event, password, heap,
                   orders, cart, held, carts_created, orders_created,
                   add_called, items_added>>

\* ------------------------------------------- ShoppingCart (collaborator)
\* A ShoppingCart object: its identity and the items it holds.
NewCart(id) == [id |-> id, items |-> <<>>]

\* `not self._cart`: a cart object is truthy whether or not it holds items.
Truthy(c) == c # None

\* add_item: the cart rejects a quantity that is not positive.
CartAddItem(c, candy, quantity) ==
    IF quantity <= 0
      THEN [raised |-> TRUE, cart |-> c]
      ELSE [raised |-> FALSE,
            cart |-> [c EXCEPT !.items = Append(@, [candy |-> candy, quantity |-> quantity])]]

\* create_order: the order carries the payment method and the cart's items.
CartCreateOrder(c, payment_method, id) ==
    [order_id |-> id, payment_method |-> payment_method, items |-> c.items]

\* Whether create_order may fail: rejecting an empty cart is the cart's policy.
CreateOrderOutcomes(c) == IF c.items = <<>> THEN {"ok", "rejected"} ELSE {"ok"}

\* clear: the same cart object, holding nothing.
CartClear(c) == [c EXCEPT !.items = <<>>]

\* ----------------------------------------------------- User._ensure_cart
\* Faulty variant: a cart holding no items counts as missing.
EnsureCartWhenEmpty(c, created) ==
    IF c = None \/ c.items = <<>>
      THEN [cart |-> NewCart(created + 1), created |-> created + 1]
      ELSE [cart |-> c, created |-> created]

EnsureCart(c, created) ==
    IF ~Truthy(c)
      THEN [cart |-> NewCart(created + 1), created |-> created + 1]
      ELSE [cart |-> c, created |-> created]

\* ------------------------------------------------------ User.add_to_cart
\* Faulty variant: the quantity is checked before the cart is created.
AddToCartValidatesFirst(c, created, candy, quantity) ==
    IF quantity <= 0
      THEN [cart |-> c, created |-> created, outcome |-> "raised",
            ret |-> "ValueError: add_item"]
      ELSE [cart |-> CartAddItem(EnsureCart(c, created).cart, candy, quantity).cart,
            created |-> EnsureCart(c, created).created,
            outcome |-> "returned", ret |-> None]

AddToCartResult(c, created, candy, quantity) ==
    [cart |-> CartAddItem(EnsureCart(c, created).cart, candy, quantity).cart,
     created |-> EnsureCart(c, created).created,
     outcome |-> IF CartAddItem(EnsureCart(c, created).cart, candy, quantity).raised
                   THEN "raised" ELSE "returned",
     ret |-> IF CartAddItem(EnsureCart(c, created).cart, candy, quantity).raised
               THEN "ValueError: add_item" ELSE None]

AddToCart(candy, quantity) ==
    /\ kind \in UserKinds
    /\ quantity > 0 /\ cart # None => Len(cart.items) < MaxItems
    /\ cart' = AddToCartResult(cart, carts_created, candy, quantity).cart
    /\ carts_created' = AddToCartResult(cart, carts_created, candy, quantity).created
    /\ add_called' = TRUE
    /\ items_added' = IF AddToCartResult(cart, carts_created, candy, quantity).outcome
                           = "returned"
                        THEN items_added + 1 ELSE items_added
    /\ pre' = Snapshot
    /\ last' = [op |-> "add_to_cart", args |-> <<candy, quantity>>,
                outcome |-> AddToCartResult(cart, carts_created, candy, quantity).outcome,
                ret |-> AddToCartResult(cart, carts_created, candy, quantity).ret]
    /\ UNCHANGED <<personVars, staffVars, threadVars, email, email_verified, email_event, password, heap,
                   orders, is_active, deactivated_reason, held, orders_created,
                   deactivate_called>>

\* --------------------------------------------------------- User.checkout
\* create_ok: whether the cart's create_order returned an order.
\* Faulty variants of checkout: the cart is not cleared; the order is not
\* recorded; the order is put first; a missing cart is created; an empty cart
\* is refused.
CheckoutNoClear(c, history, payment_method, id, create_ok) ==
    IF ~Truthy(c)
      THEN [outcome |-> "raised", ret |-> "ValueError: Cart is empty",
            cart |-> c, history |-> history]
    ELSE IF ~create_ok
      THEN [outcome |-> "raised", ret |-> "create_order failed",
            cart |-> c, history |-> history]
    ELSE [outcome |-> "returned", ret |-> CartCreateOrder(c, payment_method, id),
          cart |-> c,
          history |-> Append(history, CartCreateOrder(c, payment_method, id))]

CheckoutNoAppend(c, history, payment_method, id, create_ok) ==
    IF ~Truthy(c)
      THEN [outcome |-> "raised", ret |-> "ValueError: Cart is empty",
            cart |-> c, history |-> history]
    ELSE IF ~create_ok
      THEN [outcome |-> "raised", ret |-> "create_order failed",
            cart |-> c, history |-> history]
    ELSE [outcome |-> "returned", ret |-> CartCreateOrder(c, payment_method, id),
          cart |-> CartClear(c), history |-> history]

CheckoutPrepends(c, history, payment_method, id, create_ok) ==
    IF ~Truthy(c)
      THEN [outcome |-> "raised", ret |-> "ValueError: Cart is empty",
            cart |-> c, history |-> history]
    ELSE IF ~create_ok
      THEN [outcome |-> "raised", ret |-> "create_order failed",
            cart |-> c, history |-> history]
    ELSE [outcome |-> "returned", ret |-> CartCreateOrder(c, payment_method, id),
          cart |-> CartClear(c),
          history |-> <<CartCreateOrder(c, payment_method, id)>> \o history]

CheckoutCreatesCart(c, history, payment_method, id, create_ok) ==
    IF ~Truthy(c)
      THEN [outcome |-> "returned", ret |-> CartCreateOrder(NewCart(1), payment_method, id),
            cart |-> NewCart(1),
            history |-> Append(history, CartCreateOrder(NewCart(1), payment_method, id))]
    ELSE IF ~create_ok
      THEN [outcome |-> "raised", ret |-> "create_order failed",
            cart |-> c, history |-> history]
    ELSE [outcome |-> "returned", ret |-> CartCreateOrder(c, payment_method, id),
          cart |-> CartClear(c),
          history |-> Append(history, CartCreateOrder(c, payment_method, id))]

CheckoutRequiresItems(c, history, payment_method, id, create_ok) ==
    IF c = None \/ c.items = <<>>
      THEN [outcome |-> "raised", ret |-> "ValueError: Cart is empty",
            cart |-> c, history |-> history]
    ELSE IF ~create_ok
      THEN [outcome |-> "raised", ret |-> "create_order failed",
            cart |-> c, history |-> history]
    ELSE [outcome |-> "returned", ret |-> CartCreateOrder(c, payment_method, id),
          cart |-> CartClear(c),
          history |-> Append(history, CartCreateOrder(c, payment_method, id))]

\* Faulty variant: the order is recorded before create_order's failure is seen.
CheckoutRecordsFailedOrder(c, history, payment_method, id, create_ok) ==
    IF ~Truthy(c)
      THEN [outcome |-> "raised", ret |-> "ValueError: Cart is empty",
            cart |-> c, history |-> history]
    ELSE IF ~create_ok
      THEN [outcome |-> "raised", ret |-> "create_order failed",
            cart |-> CartClear(c),
            history |-> Append(history, CartCreateOrder(c, payment_method, id))]
    ELSE [outcome |-> "returned", ret |-> CartCreateOrder(c, payment_method, id),
          cart |-> CartClear(c),
          history |-> Append(history, CartCreateOrder(c, payment_method, id))]

CheckoutResult(c, history, payment_method, id, create_ok) ==
    IF ~Truthy(c)
      THEN [outcome |-> "raised", ret |-> "ValueError: Cart is empty",
            cart |-> c, history |-> history]
    ELSE IF ~create_ok
      THEN [outcome |-> "raised", ret |-> "create_order failed",
            cart |-> c, history |-> history]
    ELSE [outcome |-> "returned", ret |-> CartCreateOrder(c, payment_method, id),
          cart |-> CartClear(c),
          history |-> Append(history, CartCreateOrder(c, payment_method, id))]

Checkout(payment_method) ==
    /\ kind \in UserKinds
    /\ \E create_outcome \in (IF Truthy(cart) THEN CreateOrderOutcomes(cart) ELSE {"ok"}) :
         LET r == CheckoutResult(cart, heap[orders], payment_method,
                                 orders_created + 1, create_outcome = "ok")
         IN  /\ r.outcome = "returned" => Len(heap[orders]) < MaxOrders
             /\ cart' = r.cart
             /\ heap' = [heap EXCEPT ![orders] = r.history]
             /\ orders_created' = IF r.outcome = "returned"
                                    THEN orders_created + 1 ELSE orders_created
             /\ pre' = Snapshot
             /\ last' = [op |-> "checkout", args |-> <<payment_method>>,
                         outcome |-> r.outcome, ret |-> r.ret]
    /\ UNCHANGED <<personVars, staffVars, threadVars, email, email_verified, email_event, password, orders,
                   is_active, deactivated_reason, held, carts_created,
                   deactivate_called,
                   add_called, items_added>>

\* ------------------------------------------------------- User.get_orders
\* The reference of the list object handed to the caller, and the heap after.
\* Faulty variant: the internal list itself is returned.
GetOrdersAliases(h, ref) == [heap |-> h, ret |-> ref]

GetOrdersResult(h, ref) == [heap |-> (2 :> h[ref]) @@ h, ret |-> 2]

GetOrders ==
    /\ kind \in UserKinds
    /\ heap' = GetOrdersResult(heap, orders).heap
    /\ held' = GetOrdersResult(heap, orders).ret
    /\ pre' = Snapshot
    /\ last' = Returns("get_orders", <<>>, GetOrdersResult(heap, orders).ret)
    /\ UNCHANGED <<personVars, staffVars, threadVars, email, email_verified, email_event, password, orders,
                   cart, is_active, deactivated_reason, carts_created,
                   orders_created, deactivate_called,
                   add_called, items_added>>

\* --------------------------------------------------------- User.get_cart
GetCart ==
    /\ kind \in UserKinds
    /\ pre' = Snapshot
    /\ last' = Returns("get_cart", <<>>, cart)
    /\ UNCHANGED <<personVars, staffVars, threadVars, email, email_verified, email_event, userVars>>

\* ------------------------------------------------------ User.order_count
OrderCountOf(history) == Len(history)

OrderCount ==
    /\ kind \in UserKinds
    /\ pre' = Snapshot
    /\ last' = Returns("order_count", <<>>, OrderCountOf(heap[orders]))
    /\ UNCHANGED <<personVars, staffVars, threadVars, email, email_verified, email_event, userVars>>

\* ------------------------------- the caller's use of a returned list
\* An order that never came out of this account's checkout.
ForeignOrder == [order_id |-> 0, payment_method |-> "cash", items |-> <<>>]

CallerMutates(op, contents) ==
    /\ kind \in UserKinds
    /\ held # 0
    /\ heap' = [heap EXCEPT ![held] = contents]
    /\ pre' = Snapshot
    /\ last' = Returns(op, <<>>, None)
    /\ UNCHANGED <<personVars, staffVars, threadVars, email, email_verified, email_event, password, orders,
                   cart, is_active, deactivated_reason, held, carts_created,
                   orders_created, deactivate_called,
                   add_called, items_added>>

CallerAppend ==
    /\ held # 0 /\ Len(heap[held]) < MaxHeld
    /\ CallerMutates("caller_append", Append(heap[held], ForeignOrder))

CallerRemove ==
    /\ held # 0 /\ heap[held] # <<>>
    /\ CallerMutates("caller_remove", Tail(heap[held]))

CallerReverse ==
    /\ held # 0 /\ Len(heap[held]) >= 2
    /\ CallerMutates("caller_reverse", Reverse(heap[held]))

Next ==
    \/ VerifyEmail
    \/ \E e \in Emails : UpdateEmail(e)
    \/ \E e \in Emails, p \in Passwords : Login(e, p)
    \/ \E o \in Passwords, n \in Passwords : ChangePassword(o, n)
    \/ \E r \in Reasons : Deactivate(r)
    \/ \E c \in Candies, q \in Quantities : AddToCart(c, q)
    \/ \E pm \in PaymentMethods : Checkout(pm)
    \/ GetCart
    \/ OrderCount

Spec == Init /\ [][Next]_vars

\* The account's cart and order operations together with a caller that keeps
\* and changes the list get_orders handed out.
NextCaller ==
    \/ \E c \in Candies, q \in Quantities : AddToCart(c, q)
    \/ \E pm \in PaymentMethods : Checkout(pm)
    \/ GetOrders
    \/ OrderCount
    \/ CallerAppend
    \/ CallerRemove
    \/ CallerReverse

SpecCaller == Init /\ [][NextCaller]_vars

\* --------------------------- User.checkout, statement by statement
\* Nothing in User holds a lock, so when several threads use one account the
\* statements of checkout interleave with the other threads' calls.
\* Lines 73-75: the cart test and `order = self._cart.create_order(...)`.
ThreadCheckoutCreate(t, payment_method) ==
    /\ kind \in UserKinds
    /\ pc[t] = "idle"
    /\ \E create_outcome \in (IF Truthy(cart) THEN CreateOrderOutcomes(cart) ELSE {"ok"}) :
         IF ~Truthy(cart)
           THEN /\ last' = [op |-> "checkout", args |-> <<payment_method>>,
                            outcome |-> "raised", ret |-> "ValueError: Cart is empty"]
                /\ UNCHANGED <<pc, local_order, orders_created>>
         ELSE IF create_outcome # "ok"
           THEN /\ last' = [op |-> "checkout", args |-> <<payment_method>>,
                            outcome |-> "raised", ret |-> "create_order failed"]
                /\ UNCHANGED <<pc, local_order, orders_created>>
         ELSE /\ orders_created < MaxOrders
              /\ local_order' = [local_order EXCEPT ![t] =
                     CartCreateOrder(cart, payment_method, orders_created + 1)]
              /\ orders_created' = orders_created + 1
              /\ pc' = [pc EXCEPT ![t] = "append"]
              /\ last' = Returns("checkout:create_order", <<payment_method>>, None)
    /\ pre' = Snapshot
    /\ UNCHANGED <<personVars, staffVars, email, email_verified, email_event,
                   password, heap, orders, cart, is_active, deactivated_reason,
                   held, carts_created, deactivate_called, add_called, items_added>>

\* Line 76: `self._orders.append(order)`.
ThreadCheckoutAppend(t) ==
    /\ pc[t] = "append"
    /\ heap' = [heap EXCEPT ![orders] = Append(@, local_order[t])]
    /\ pc' = [pc EXCEPT ![t] = "clear"]
    /\ pre' = Snapshot
    /\ last' = Returns("checkout:append", <<>>, None)
    /\ UNCHANGED <<personVars, staffVars, email, email_verified, email_event,
                   password, orders, cart, is_active, deactivated_reason, held,
                   carts_created, orders_created, deactivate_called, add_called,
                   items_added, local_order>>

\* Lines 77-78: `self._cart.clear()` and `return order`.
ThreadCheckoutClear(t) ==
    /\ pc[t] = "clear"
    /\ cart' = CartClear(cart)
    /\ pc' = [pc EXCEPT ![t] = "idle"]
    /\ local_order' = [local_order EXCEPT ![t] = None]
    /\ pre' = Snapshot
    /\ last' = Returns("checkout", <<local_order[t].payment_method>>, local_order[t])
    /\ UNCHANGED <<personVars, staffVars, email, email_verified, email_event,
                   password, heap, orders, is_active, deactivated_reason, held,
                   carts_created, orders_created, deactivate_called, add_called,
                   items_added>>

\* Threads sharing one account: checkout runs statement by statement, the
\* other calls between its statements.
NextThreads ==
    \/ \E t \in Threads, pm \in PaymentMethods : ThreadCheckoutCreate(t, pm)
    \/ \E t \in Threads : ThreadCheckoutAppend(t)
    \/ \E t \in Threads : ThreadCheckoutClear(t)
    \/ \E c \in Candies, q \in Quantities : AddToCart(c, q)
    \/ GetCart
    \/ OrderCount

SpecThreads == Init /\ [][NextThreads]_vars

\* ------------------------------------------------------- Staff.__init__
StaffInit(pw, pos) ==
    /\ UserInit(pw, TRUE)
    /\ position = pos

InitStaff ==
    /\ kind = "Staff"
    /\ \E pw \in Passwords, pos \in Positions : StaffInit(pw, pos)
    /\ candy_quantity \in InitialQuantities
    /\ inventory_written = FALSE
    /\ held = 0
    /\ carts_created = 0
    /\ orders_created = 0
    /\ deactivate_called = FALSE
    /\ email_event = "created"
    /\ add_called = FALSE
    /\ items_added = 0
    /\ pc = [t \in Threads |-> "idle"]
    /\ local_order = [t \in Threads |-> None]
    /\ pre = Snapshot
    /\ last = Returns("__init__", <<>>, None)

\* ----------------------------------------------- Staff.update_inventory
\* Faulty variants: no validation; zero is refused as well.
UpdateInventoryUnchecked(quantity, new_quantity) ==
    [outcome |-> "returned", ret |-> None, quantity |-> new_quantity]

UpdateInventoryRefusesZero(quantity, new_quantity) ==
    IF new_quantity <= 0
      THEN [outcome |-> "raised", ret |-> "ValueError: Quantity cannot be negative",
            quantity |-> quantity]
      ELSE [outcome |-> "returned", ret |-> None, quantity |-> new_quantity]

UpdateInventoryResult(quantity, new_quantity) ==
    IF new_quantity < 0
      THEN [outcome |-> "raised", ret |-> "ValueError: Quantity cannot be negative",
            quantity |-> quantity]
      ELSE [outcome |-> "returned", ret |-> None, quantity |-> new_quantity]

UpdateInventory(new_quantity) ==
    /\ kind = "Staff"
    /\ candy_quantity' = UpdateInventoryResult(candy_quantity, new_quantity).quantity
    /\ inventory_written' =
           (inventory_written
              \/ UpdateInventoryResult(candy_quantity, new_quantity).outcome = "returned")
    /\ pre' = Snapshot
    /\ last' = [op |-> "update_inventory", args |-> <<new_quantity>>,
                outcome |-> UpdateInventoryResult(candy_quantity, new_quantity).outcome,
                ret |-> UpdateInventoryResult(candy_quantity, new_quantity).ret]
    /\ UNCHANGED <<personVars, threadVars, position, email, email_verified,
                   email_event, userVars>>

\* A staff member: the inventory write among the operations inherited from
\* User and Person.
NextStaff ==
    \/ \E q \in NewQuantities : UpdateInventory(q)
    \/ \E r \in Reasons : Deactivate(r)
    \/ VerifyEmail
    \/ \E e \in Emails : UpdateEmail(e)

SpecStaff == InitStaff /\ [][NextStaff]_vars

\* ======================================================== properties
Returned(op) == last.op = op /\ last.outcome = "returned"
Raised(op, e) == last.op = op /\ last.outcome = "raised" /\ last.ret = e
CallerOps == {"caller_append", "caller_remove", "caller_reverse"}

\* C1: login returns true if and only if the account is active, the supplied
\* email equals the stored email and the supplied credential equals the stored
\* credential.  (Fails: with a stored credential holding a non-ASCII character,
\* the matching login raises TypeError instead of returning true.)
C1_LoginTrueIffActiveAndMatching ==
    last.op = "login" =>
        ((last.outcome = "returned" /\ last.ret = TRUE)
            <=> (pre.is_active /\ pre.email = last.args[1]
                               /\ pre.password = last.args[2]))

\* C2: once deactivate has been called the account is never active again, and
\* every login after it returns false.
C2_DeactivationIsOneWay ==
    deactivate_called =>
        /\ ~is_active
        /\ last.op = "login" => (last.outcome = "returned" /\ last.ret = FALSE)

\* C2 witness: a login with the stored email and credential after deactivate,
\* with a cart already created on the account.
C2_Witness ==
    /\ deactivate_called /\ last.op = "login"
    /\ last.args = <<email, password>> /\ IsAscii(password)
    /\ cart # None

\* C3 as stated: the verified flag is true only if verify_email was called and
\* no update_email happened since; update_email leaves it false; a newly
\* created person or user starts with it false.
C3_VerifiedOnlyAfterVerifyEmail ==
    /\ email_verified => email_event = "verified"
    /\ last.op = "update_email" => ~email_verified
    /\ last.op = "__init__" => ~email_verified

\* C3 amended: the verified flag is true only if verify_email was called, or
\* the Person was constructed with email_verified=True, and no update_email
\* happened since; update_email leaves it false; a newly created User starts
\* with it false.
C3_VerifiedOnlyAfterVerifyOrConstruction ==
    /\ email_verified =>
           \/ email_event = "verified"
           \/ (email_event = "created" /\ kind = "Person")
    /\ last.op = "update_email" => ~email_verified
    /\ (last.op = "__init__" /\ kind = "User") => ~email_verified

\* C3 witness: update_email with the address already stored, on a verified email.
C3_Witness ==
    /\ last.op = "update_email" /\ pre.email_verified
    /\ last.args[1] = pre.email /\ ~email_verified

\* C4: checkout on an account whose cart was never created raises the
\* empty-cart error and leaves the order history empty and the cart absent.
C4_CheckoutWithoutCartFails ==
    (last.op = "checkout" /\ pre.cart = None) =>
        /\ Raised("checkout", "ValueError: Cart is empty")
        /\ heap[orders] = pre.orders
        /\ heap[orders] = <<>>
        /\ cart = None

\* C4 witness: a checkout was attempted with no cart.
C4_Witness == last.op = "checkout" /\ pre.cart = None /\ carts_created = 0

\* C5: after a successful checkout the history is the previous history with
\* exactly the returned order appended, the order carries the payment method
\* passed in and the cart's items, and the cart is empty.
C5_CheckoutAppendsAndClears ==
    Returned("checkout") =>
        /\ heap[orders] = Append(pre.orders, last.ret)
        /\ last.ret.payment_method = last.args[1]
        /\ last.ret.items = pre.cart.items
        /\ cart # None
        /\ cart.items = <<>>

\* C5 witness: a successful checkout of a cart holding items, on an account
\* that already has an order.
C5_Witness ==
    /\ Returned("checkout") /\ pre.cart.items # <<>> /\ Len(pre.orders) = 1

C7_AtMostOneCart ==
    /\ carts_created <= 1
    /\ cart # None => cart.id = 1
    /\ pre.cart # None => (cart # None /\ cart.id = pre.cart.id)
    /\ last.op = "get_cart" => last.ret = cart

\* C7 witness: add_to_cart on the cart that an earlier checkout cleared.
C7_Witness ==
    /\ last.op = "add_to_cart" /\ pre.cart # None /\ pre.cart.items = <<>>
    /\ Len(heap[orders]) >= 1 /\ cart.id = 1 /\ cart.items # <<>>

\* C8: change_password returns false and changes nothing when old is not the
\* stored credential; otherwise it returns true and stores new, so that on an
\* active account login with the stored email succeeds with new and, when new
\* differs from old, fails with old.  (Fails: compare_digest raises TypeError
\* on a non-ASCII credential.)
C8_ChangePasswordChecksOld ==
    last.op = "change_password" =>
        IF last.args[1] # pre.password
          THEN /\ last.outcome = "returned" /\ last.ret = FALSE
               /\ Snapshot = pre
          ELSE /\ last.outcome = "returned" /\ last.ret = TRUE
               /\ password = last.args[2]
               /\ Snapshot = [pre EXCEPT !.password = last.args[2]]
               /\ is_active =>
                    /\ LoginResult(is_active, email, password, email, last.args[2])
                         = [outcome |-> "returned", ret |-> TRUE]
                    /\ last.args[2] # last.args[1] =>
                         LoginResult(is_active, email, password, email, last.args[1])
                           = [outcome |-> "returned", ret |-> FALSE]

\* C9: the order history is append-only: the history before an operation is a
\* prefix of the history after it, and only a successful checkout extends it,
\* by exactly one order.
C9_HistoryAppendOnly ==
    /\ IsPrefix(pre.orders, heap[orders])
    /\ heap[orders] # pre.orders =>
           /\ Returned("checkout")
           /\ Len(heap[orders]) = Len(pre.orders) + 1

\* C9 witness: a successful checkout extended a history that held an order.
C9_Witness ==
    /\ Returned("checkout") /\ Len(pre.orders) = 1 /\ Len(heap[orders]) = 2

\* C10: get_orders returns a list object of its own holding the history in
\* insertion order; appending to, removing from or reversing that list changes
\* neither the account's history, nor order_count, nor what get_orders returns.
C10_GetOrdersReturnsCopy ==
    /\ last.op = "get_orders" =>
           /\ last.ret # orders
           /\ heap[last.ret] = heap[orders]
           /\ heap[orders] = pre.orders
    /\ last.op \in CallerOps => heap[orders] = pre.orders
    /\ last.op = "order_count" => last.ret = orders_created
    /\ Len(heap[orders]) = orders_created
    /\ \A i \in 1..Len(heap[orders]) : heap[orders][i].order_id = i

\* C10 witness: the caller reversed a returned list of two orders, which now
\* differs from the account's history.
C10_Witness ==
    /\ last.op = "caller_reverse" /\ held # 0
    /\ Len(heap[orders]) = 2 /\ heap[held] # heap[orders]

\* C11: order_count equals the length of the list get_orders returns and the
\* number of checkouts that have succeeded on the account.
C11_OrderCountIsHistoryLength ==
    /\ Len(heap[orders]) = orders_created
    /\ last.op = "order_count" =>
           /\ last.ret = Len(heap[orders])
           /\ last.ret = Len(GetOrdersResult(heap, orders).heap[GetOrdersResult(heap, orders).ret])
    /\ last.op = "get_orders" => Len(heap[last.ret]) = OrderCountOf(heap[orders])

\* C11 witness: order_count read after two successful checkouts.
C11_Witness == last.op = "order_count" /\ last.ret = 2 /\ orders_created = 2

\* Items the orders of a history hold, and items the cart holds.
RECURSIVE ItemsOrdered(_)
ItemsOrdered(history) ==
    IF history = <<>> THEN 0
    ELSE Len(Head(history).items) + ItemsOrdered(Tail(history))

ItemsInCart == IF cart = None THEN 0 ELSE Len(cart.items)

\* C12: checkout is atomic for the threads sharing an account: whenever
\* another call runs or a checkout has returned, every item the cart accepted
\* is either still in the cart or in exactly one recorded order, never in both
\* (order recorded, cart not yet cleared) and never in neither (lost).
\* (Fails: checkout takes no lock, other calls run between its statements.)
C12_CheckoutAtomicUnderThreads ==
    last.op \notin {"checkout:create_order", "checkout:append"} =>
        items_added = ItemsInCart + ItemsOrdered(heap[orders])

\* C13: update_inventory with a negative quantity raises the invalid-quantity
\* error and leaves the quantity as it was; with a quantity >= 0, zero
\* included, it succeeds and the quantity is the one given; so a quantity that
\* update_inventory has written is never negative.
C13_UpdateInventoryValidates ==
    /\ last.op = "update_inventory" =>
           IF last.args[1] < 0
             THEN /\ Raised("update_inventory", "ValueError: Quantity cannot be negative")
                  /\ candy_quantity = pre.candy_quantity
             ELSE /\ Returned("update_inventory")
                  /\ candy_quantity = last.args[1]
    /\ inventory_written => candy_quantity >= 0

\* C13 witness: update_inventory(candy, 0) on a candy with stock.
C13_Witness ==
    /\ Returned("update_inventory") /\ last.args[1] = 0
    /\ pre.candy_quantity > 0 /\ candy_quantity = 0

\* C13 second case reached: a negative quantity refused after a write.
C13_WitnessRefused ==
    /\ last.op = "update_inventory" /\ last.args[1] < 0
    /\ inventory_written /\ candy_quantity = pre.candy_quantity

\* C14: after deactivate has been called, checkout does not succeed and
\* appends no order to the history.
\* (Fails: checkout never reads is_active.)
C14_DeactivatedCannotCheckout ==
    (deactivate_called /\ last.op = "checkout") =>
        /\ last.outcome = "raised"
        /\ heap[orders] = pre.orders

\* C15: login never raises: for every account state and every supplied email
\* and credential it returns a boolean.
\* (Fails: compare_digest raises TypeError on a non-ASCII str.)
C15_LoginNeverRaises ==
    last.op = "login" => (last.outcome = "returned" /\ last.ret \in BOOLEAN)

\* C16: when the cart's create_order fails during checkout the error reaches
\* the caller and the account is as before: no order appended, cart not
\* cleared, no other field changed.
C16_FailedCreateOrderChangesNothing ==
    Raised("checkout", "create_order failed") =>
        /\ heap[orders] = pre.orders
        /\ cart = pre.cart
        /\ Snapshot = pre
        /\ orders_created = Len(heap[orders])

\* C16 witness: create_order refused the cart that an earlier checkout cleared.
C16_Witness ==
    /\ Raised("checkout", "create_order failed")
    /\ Len(pre.orders) = 1 /\ pre.cart # None

\* C17: add_to_cart creates the cart before it delegates, so the cart exists
\* after every add_to_cart call, also one the cart rejected; from then on
\* get_cart never returns None and checkout never raises the account's
\* empty-cart error, although no item may ever have been added.
C17_CartExistsAfterAnyAdd ==
    /\ add_called => cart # None
    /\ (add_called /\ last.op = "get_cart") => last.ret # None
    /\ (add_called /\ last.op = "checkout") =>
           ~Raised("checkout", "ValueError: Cart is empty")

\* C17 witness: a checkout that got past the cart test on an account whose
\* only add_to_cart calls were rejected.
C17_Witness ==
    /\ add_called /\ items_added = 0 /\ last.op = "checkout"
    /\ pre.cart # None /\ pre.cart.items = <<>>
====
